---- MODULE Spec2Model ----
(***************************************************************************)
(* Model of src/bot.py: a Telegram bot that looks up an IPv4 address at a  *)
(* geo-IP provider, renders a map file and replies with text + attachment. *)
(*                                                                         *)
(* Python strings are sequences of one-character strings where the code    *)
(* processes them character by character (message text, IP) and sequences  *)
(* of chunks elsewhere.  Cyrillic letters are written by name ("PE" is the *)
(* capital letter pe, "pe" the small one) because the parser is ASCII-only.*)
(* Optional values (None or a value) are sequences of length 0 or 1.       *)
(***************************************************************************)
EXTENDS Integers, Sequences, FiniteSets, TLC

VARIABLES pc, text, handler, ip, resp, data, map_filename, attached, disk, log,
          valid_in, valid_out

vars == <<pc, text, handler, ip, resp, data, map_filename, attached, disk, log,
          valid_in, valid_out>>

hvars == <<pc, text, handler, ip, resp, data, map_filename, attached, disk, log>>

(* ---------------------------- bounds ----------------------------------- *)
\* number of inbound messages whose handlers may be in flight together
MaxReq == 2
\* largest number of dot-separated segments of a validator input
MaxSegs == 4

Req == 1..MaxReq

(* ---------------------------- strings ---------------------------------- *)
None == <<>>
Some(v) == <<v>>

Digits == {"0", "1", "2", "3", "4", "5", "6", "7", "8", "9"}

DigitVal(c) ==
    CASE c = "0" -> 0 [] c = "1" -> 1 [] c = "2" -> 2 [] c = "3" -> 3
      [] c = "4" -> 4 [] c = "5" -> 5 [] c = "6" -> 6 [] c = "7" -> 7
      [] c = "8" -> 8 [] c = "9" -> 9

IsSpace(c) == c \in {" ", "\t", "\n"}

\* str.lower() on one character
LowerChar(c) ==
    CASE c = "PE" -> "pe" [] c = "EM" -> "em" [] c = "I" -> "i"
      [] c = "P" -> "p" [] c = "S" -> "s"
      [] OTHER -> c

Range(f) == { f[i] : i \in DOMAIN f }

\* str.lower()
Lower(s) == [i \in 1..Len(s) |-> LowerChar(s[i])]

RECURSIVE LStrip(_)
LStrip(s) == IF s # <<>> /\ IsSpace(s[1]) THEN LStrip(Tail(s)) ELSE s

RECURSIVE RStrip(_)
RStrip(s) ==
    IF s # <<>> /\ IsSpace(s[Len(s)]) THEN RStrip(SubSeq(s, 1, Len(s) - 1)) ELSE s

\* str.strip()
Strip(s) == RStrip(LStrip(s))

\* str.split(sep): one more part than there are separators, empty parts kept
RECURSIVE SplitFrom(_, _, _)
SplitFrom(s, sep, cur) ==
    IF s = <<>> THEN <<cur>>
    ELSE IF s[1] = sep THEN <<cur>> \o SplitFrom(Tail(s), sep, <<>>)
    ELSE SplitFrom(Tail(s), sep, Append(cur, s[1]))

Split(s, sep) == SplitFrom(s, sep, <<>>)

\* value of a digit string with single underscores allowed between digits
\* (PEP 515); err when the literal is malformed
RECURSIVE DigitsValue(_, _, _)
DigitsValue(s, acc, prevDigit) ==
    IF s = <<>> THEN [err |-> ~prevDigit, val |-> acc]
    ELSE IF s[1] \in Digits THEN DigitsValue(Tail(s), acc * 10 + DigitVal(s[1]), TRUE)
    ELSE IF s[1] = "_" /\ prevDigit THEN DigitsValue(Tail(s), acc, FALSE)
    ELSE [err |-> TRUE, val |-> 0]

\* int(part): surrounding whitespace stripped, an optional sign, then digits;
\* err stands for ValueError
IntParse(part) ==
    LET s == Strip(part)
        signed == s # <<>> /\ s[1] \in {"+", "-"}
        body == IF signed THEN Tail(s) ELSE s
        r == DigitsValue(body, 0, FALSE)
    IN  IF r.err THEN r
        ELSE [err |-> FALSE, val |-> IF signed /\ s[1] = "-" THEN 0 - r.val ELSE r.val]

\* all(0 <= int(part) <= 255 for part in parts) inside try/except ValueError:
\* the generator stops at the first part that is out of range or raises
RECURSIVE AllInRange(_)
AllInRange(parts) ==
    IF parts = <<>> THEN TRUE
    ELSE LET r == IntParse(parts[1])
         IN  IF r.err THEN FALSE
             ELSE IF ~(0 <= r.val /\ r.val <= 255) THEN FALSE
             ELSE AllInRange(Tail(parts))

is_valid_ip(s) ==
    LET parts == Split(s, ".")
    IN  IF Len(parts) # 4 THEN FALSE ELSE AllInRange(parts)

(* ------------------------ validator inputs ----------------------------- *)
Segments ==
    { <<"8">>, <<"2", "5", "5">>, <<"2", "5", "6">>, <<"0", "8">>,
      <<"+", "8">>, <<" ", "8">>, <<"a">>, <<>> }

RECURSIVE Join(_, _)
Join(parts, sep) ==
    IF Len(parts) = 0 THEN <<>>
    ELSE IF Len(parts) = 1 THEN parts[1]
    ELSE parts[1] \o <<sep>> \o Join(Tail(parts), sep)

ValidatorInputs ==
    UNION { { Join(p, ".") : p \in [1..n -> Segments] } : n \in 3..MaxSegs }

(* --------------------------- message texts ----------------------------- *)
StartText == <<"/", "s", "t", "a", "r", "t">>
\* "помощь" and "мой ip", the literals the filters compare against
HelpText == <<"pe", "cy_o", "em", "cy_o", "shcha", "soft">>
MyIpText == <<"em", "cy_o", "short_i", " ", "i", "p">>
\* the button labels as the keyboard sends them: "Помощь", "Мой IP"
HelpButton == <<"PE", "cy_o", "em", "cy_o", "shcha", "soft">>
MyIpButton == <<"EM", "cy_o", "short_i", " ", "I", "P">>

Ip8888 == <<"8", ".", "8", ".", "8", ".", "8">>
Ip08888 == <<"0", "8", ".", "8", ".", "8", ".", "8">>
NotAnIp == <<"n", "o", "t", " ", "a", "n", " ", "i", "p">>

\* inbound message texts
Texts == { StartText, HelpButton, MyIpButton, Ip08888, NotAnIp }

\* first whitespace-delimited word, as text.split(maxsplit=1)[0]
RECURSIVE WordPrefix(_)
WordPrefix(s) ==
    IF s = <<>> \/ IsSpace(s[1]) THEN <<>> ELSE <<s[1]>> \o WordPrefix(Tail(s))

FirstWord(s) == WordPrefix(LStrip(s))

\* filter Command("start")
IsStartCommand(t) == FirstWord(t) = StartText

\* Route with the last filter accepting any text (validator not consulted)
Route_NoValidation(t) ==
    IF IsStartCommand(t) THEN "cmd_start"
    ELSE IF t # <<>> /\ Lower(t) = HelpText THEN "cmd_help"
    ELSE IF t # <<>> /\ Lower(t) = MyIpText THEN "cmd_my_ip"
    ELSE IF t # <<>> THEN "process_ip"
    ELSE "none"

\* Route with the help text handed to the my-IP handler
Route_HelpLooksUp(t) ==
    IF IsStartCommand(t) THEN "cmd_start"
    ELSE IF t # <<>> /\ (Lower(t) = HelpText \/ Lower(t) = MyIpText) THEN "cmd_my_ip"
    ELSE IF t # <<>> /\ is_valid_ip(t) THEN "process_ip"
    ELSE "none"

\* the dispatcher tries the registered handlers in registration order and
\* runs the first whose filter accepts the message
Route(t) ==
    IF IsStartCommand(t) THEN "cmd_start"
    ELSE IF t # <<>> /\ Lower(t) = HelpText THEN "cmd_help"
    ELSE IF t # <<>> /\ Lower(t) = MyIpText THEN "cmd_my_ip"
    ELSE IF t # <<>> /\ is_valid_ip(t) THEN "process_ip"
    ELSE "none"

(* ------------------------ external responses --------------------------- *)
\* what requests.get(...).json() yields for the geo provider: an exception
\* (exc # "") or a JSON object whose fields may be missing
NoResp == [exc |-> "unset", status |-> None, message |-> None, query |-> None,
           lat |-> None, lon |-> None]

GeoFailures ==
    { [exc |-> e, status |-> None, message |-> None, query |-> None,
       lat |-> None, lon |-> None] : e \in {"RequestException", "Exception"} }
    \cup
    { [exc |-> "", status |-> Some("fail"), message |-> m, query |-> None,
       lat |-> None, lon |-> None] : m \in {None, Some(<<"invalid query">>)} }

Latitudes == {None, Some(0), Some(37)}
Longitudes == {None, Some(0), Some(0 - 122)}

\* the query field echoes the requested address, possibly in canonical form
GeoSuccesses(addr) ==
    { [exc |-> "", status |-> st, message |-> None, query |-> q,
       lat |-> la, lon |-> lo] :
         st \in {None, Some("success")},
         q \in {None, Some(addr), Some(Ip8888)}, la \in Latitudes, lo \in Longitudes }

GeoResponses(addr) == GeoFailures \cup GeoSuccesses(addr)

\* the responses the interleaved handlers are run against: one per branch of
\* get_ip_info (network error, provider failure, KeyError, one coordinate
\* missing, a coordinate of 0, both coordinates non-zero)
HandlerGeoResponses(addr) ==
    { r \in GeoResponses(addr) :
        \/ r.exc = "RequestException"
        \/ r.status = Some("fail") /\ r.message # None
        \/ /\ r.status = Some("success")
           /\ <<r.lat, r.lon>> \in { <<Some(37), None>>, <<Some(0), Some(0 - 122)>>,
                                     <<Some(37), Some(0 - 122)>> }
           /\ r.query = None => (r.lat = Some(37) /\ r.lon = Some(0 - 122))
           /\ r.query = Some(Ip8888) => (r.lat = Some(37) /\ r.lon = Some(0 - 122)) }

\* what the self-IP service yields: a network error or a JSON object with or
\* without the ip field
SelfIpResponses ==
    { [exc |-> "RequestException", ip |-> None],
      [exc |-> "", ip |-> None],
      [exc |-> "", ip |-> Some(Ip8888)] }

(* ----------------------------- get_ip_info ----------------------------- *)
\* Truthy without the test: every coordinate counts as given
Truthy_Always(opt) == TRUE

\* Python truthiness of an optional number
Truthy(opt) == opt # None /\ opt[1] # 0

NetErrPrefix == "network error: "
GenericErrPrefix == "error: "

\* MapFilename with one fixed name for every lookup
MapFilename_Fixed(query) == <<"ip_map_", ".html">>

MapFilename(query) == <<"ip_map_">> \o query \o <<".html">>

Event(op, arg) == [op |-> op, arg |-> arg]

\* result of get_ip_info(addr) when the provider answers r and the disk is d:
\* the returned pair, the disk afterwards, and the file operations performed
\* and exceptions raised on the way
get_ip_info(h, addr, r, d) ==
    IF r.exc = "RequestException" THEN
        [data |-> None, second |-> Some(<<NetErrPrefix>>), disk |-> d,
         ops |-> <<Event("raise", <<"RequestException">>)>>]
    ELSE IF r.exc # "" THEN
        [data |-> None, second |-> Some(<<GenericErrPrefix>>), disk |-> d,
         ops |-> <<Event("raise", <<"Exception">>)>>]
    ELSE IF r.status = Some("fail") THEN
        [data |-> None,
         second |-> IF r.message = None THEN Some(<<"Unknown error">>) ELSE r.message,
         disk |-> d, ops |-> <<>>]
    ELSE
        LET rec == [IP |-> r.query, lat |-> r.lat, lon |-> r.lon]
        IN  IF Truthy(r.lat) /\ Truthy(r.lon) THEN
                IF r.query = None THEN
                    \* response['query'] raises KeyError before anything is saved
                    [data |-> None, second |-> Some(<<GenericErrPrefix, "'query'">>),
                     disk |-> d, ops |-> <<Event("raise", <<"KeyError">>)>>]
                ELSE
                    LET f == MapFilename(r.query[1])
                    IN  [data |-> Some(rec), second |-> Some(f),
                         disk |-> (f :> h) @@ d,
                         ops |-> <<Event("save", f)>>]
            ELSE [data |-> Some(rec), second |-> None, disk |-> d, ops |-> <<>>]

(* ---------------------------- reply texts ------------------------------ *)
Greeting == <<"greeting">>
HelpReply == <<"help_text">>
NoIpReply == <<"could not determine your IP">>
ManualReply == <<"could not determine your IP automatically, enter it manually">>
ErrPrefix == "(cross mark) "
InfoHeader == "IP information:"
WarnSuffix == "(warning) could not create a map for this IP"

\* "<header>" + one line per field of the record
info_text(rec) == <<InfoHeader>> \o (IF rec.IP = None THEN <<"None">> ELSE rec.IP[1])

(* ------------------------------ state ---------------------------------- *)
Init ==
    /\ pc = [h \in Req |-> "waiting"]
    /\ text = [h \in Req |-> <<>>]
    /\ handler = [h \in Req |-> "unset"]
    /\ ip = [h \in Req |-> None]
    /\ resp = [h \in Req |-> NoResp]
    /\ data = [h \in Req |-> None]
    /\ map_filename = [h \in Req |-> None]
    /\ attached = [h \in Req |-> None]
    /\ disk = <<>>
    /\ log = [h \in Req |-> <<>>]
    /\ valid_in = <<>>
    /\ valid_out = "unset"

Exited == {"returned", "raised", "ignored"}

\* os.remove(f): the disk without f
Removed(d, f) == [g \in (DOMAIN d) \ {f} |-> d[g]]

\* finally: if os.path.exists(map_filename): os.remove(map_filename)
Finally(d, f) ==
    IF f \in DOMAIN d THEN [disk |-> Removed(d, f), ops |-> <<Event("remove", f)>>]
    ELSE [disk |-> d, ops |-> <<>>]

\* process_ip_request up to its first await: bot.send_chat_action(..., "typing")
Enter(h, t, name, addr, pre) ==
    /\ pc' = [pc EXCEPT ![h] = "send_chat_action"]
    /\ text' = [text EXCEPT ![h] = t]
    /\ handler' = [handler EXCEPT ![h] = name]
    /\ ip' = [ip EXCEPT ![h] = Some(addr)]
    /\ log' = [log EXCEPT ![h] = pre \o <<Event("send_chat_action", <<"typing">>)>>]
    /\ UNCHANGED <<resp, data, map_filename, attached, disk, valid_in, valid_out>>

\* a handler that runs up to a single message.answer(reply)
Reply(h, t, name, at, pre, reply) ==
    /\ pc' = [pc EXCEPT ![h] = at]
    /\ text' = [text EXCEPT ![h] = t]
    /\ handler' = [handler EXCEPT ![h] = name]
    /\ log' = [log EXCEPT ![h] = pre \o <<Event("answer", reply)>>]
    /\ UNCHANGED <<ip, resp, data, map_filename, attached, disk, valid_in, valid_out>>

(* ----------------------------- handlers -------------------------------- *)
cmd_start(h, t) ==
    /\ pc[h] = "waiting"
    /\ Route(t) = "cmd_start"
    /\ Reply(h, t, "cmd_start", "cmd_start.answer", <<>>, Greeting)

cmd_help(h, t) ==
    /\ pc[h] = "waiting"
    /\ Route(t) = "cmd_help"
    /\ Reply(h, t, "cmd_help", "cmd_help.answer", <<>>, HelpReply)

\* cmd_my_ip looking up the default address after a network error
cmd_my_ip_LooksUpAnyway(h, t, r) ==
    /\ pc[h] = "waiting"
    /\ Route(t) = "cmd_my_ip"
    /\ LET get == <<Event("requests.get", <<"api.ipify.org">>)>>
       IN  IF r.exc = "RequestException" THEN
               Enter(h, t, "cmd_my_ip", Ip8888,
                     get \o <<Event("raise", <<"RequestException">>)>>)
           ELSE IF r.ip # None /\ r.ip[1] # <<>> THEN
               Enter(h, t, "cmd_my_ip", r.ip[1], get)
           ELSE
               Reply(h, t, "cmd_my_ip", "cmd_my_ip.answer", get, NoIpReply)

\* r is what the self-IP service yields
cmd_my_ip(h, t, r) ==
    /\ pc[h] = "waiting"
    /\ Route(t) = "cmd_my_ip"
    /\ LET get == <<Event("requests.get", <<"api.ipify.org">>)>>
       IN  IF r.exc = "RequestException" THEN
               Reply(h, t, "cmd_my_ip", "cmd_my_ip.answer",
                     get \o <<Event("raise", <<"RequestException">>)>>, ManualReply)
           ELSE IF r.ip # None /\ r.ip[1] # <<>> THEN
               Enter(h, t, "cmd_my_ip", r.ip[1], get)
           ELSE
               Reply(h, t, "cmd_my_ip", "cmd_my_ip.answer", get, NoIpReply)

process_ip(h, t) ==
    /\ pc[h] = "waiting"
    /\ Route(t) = "process_ip"
    /\ Enter(h, t, "process_ip", Strip(t), <<>>)

\* no filter accepts the message: the update is dropped
Unhandled(h, t) ==
    /\ pc[h] = "waiting"
    /\ Route(t) = "none"
    /\ pc' = [pc EXCEPT ![h] = "ignored"]
    /\ text' = [text EXCEPT ![h] = t]
    /\ handler' = [handler EXCEPT ![h] = "none"]
    /\ UNCHANGED <<ip, resp, data, map_filename, attached, disk, log,
                   valid_in, valid_out>>

SingleAnswers == {"cmd_start.answer", "cmd_help.answer", "cmd_my_ip.answer",
                  "answer_err", "answer_warn"}

\* a handler's last message.answer completes (ok) or raises
AnswerResumed(h, ok) ==
    /\ pc[h] \in SingleAnswers
    /\ pc' = [pc EXCEPT ![h] = IF ok THEN "returned" ELSE "raised"]
    /\ log' = [log EXCEPT ![h] =
                 IF ok THEN @ ELSE Append(@, Event("raise", <<"TelegramAPIError">>))]
    /\ UNCHANGED <<text, handler, ip, resp, data, map_filename, attached, disk,
                   valid_in, valid_out>>

\* the ip argument of request h's process_ip_request call ("" before the call)
IpOf(h) == IF ip[h] = None THEN <<>> ELSE ip[h][1]

\* Branch deciding on the second element of the pair instead of the record
Branch_BySecond(d, second) ==
    IF d = None \/ second = None THEN "answer_err"
    ELSE IF second[1] # <<>> THEN "answer_info"
    ELSE "answer_warn"

\* the branch process_ip_request takes on the pair get_ip_info returned
Branch(d, second) ==
    IF d = None THEN "answer_err"
    ELSE IF second # None /\ second[1] # <<>> THEN "answer_info"
    ELSE "answer_warn"

\* FirstReply with the warning suffix appended to every info text
FirstReply_WarnAlways(d, second) ==
    IF Branch(d, second) = "answer_err" THEN
        <<ErrPrefix>> \o (IF second = None THEN <<"None">> ELSE second[1])
    ELSE info_text(d[1]) \o <<WarnSuffix>>

\* the text of the first reply on that branch
FirstReply(d, second) ==
    IF Branch(d, second) = "answer_err" THEN
        <<ErrPrefix>> \o (IF second = None THEN <<"None">> ELSE second[1])
    ELSE IF Branch(d, second) = "answer_info" THEN info_text(d[1])
    ELSE info_text(d[1]) \o <<WarnSuffix>>

\* send_chat_action completes: get_ip_info runs, then the first reply is sent
\* (r is what the geo provider yields)
TypingResumed(h, ok) ==
    /\ pc[h] = "send_chat_action"
    /\ IF ~ok THEN
           /\ pc' = [pc EXCEPT ![h] = "raised"]
           /\ log' = [log EXCEPT ![h] = Append(@, Event("raise", <<"TelegramAPIError">>))]
           /\ UNCHANGED <<resp, data, map_filename, disk>>
       ELSE
           \E r \in HandlerGeoResponses(IpOf(h)) :
           LET res == get_ip_info(h, ip[h][1], r, disk)
               get == <<Event("requests.get", <<"ip-api.com/json/">> \o ip[h][1])>>
               called == log[h] \o get \o res.ops
           IN  /\ resp' = [resp EXCEPT ![h] = r]
               /\ data' = [data EXCEPT ![h] = res.data]
               /\ map_filename' = [map_filename EXCEPT ![h] = res.second]
               /\ disk' = res.disk
               /\ pc' = [pc EXCEPT ![h] = Branch(res.data, res.second)]
               /\ log' = [log EXCEPT ![h] = Append(called,
                            Event("answer", FirstReply(res.data, res.second)))]
    /\ UNCHANGED <<text, handler, ip, attached, valid_in, valid_out>>

\* InfoResumed with the text reply outside the try block: no cleanup when it
\* raises
InfoResumed_NoCleanup(h, ok) ==
    /\ pc[h] = "answer_info"
    /\ pc' = [pc EXCEPT ![h] = IF ok THEN "answer_document" ELSE "raised"]
    /\ log' = [log EXCEPT ![h] =
                 IF ok THEN Append(@, Event("answer_document", map_filename[h][1]))
                 ELSE Append(@, Event("raise", <<"TelegramAPIError">>))]
    /\ UNCHANGED <<text, handler, ip, resp, data, map_filename, attached, disk,
                   valid_in, valid_out>>

\* InfoResumed removing the file before the attachment is sent
InfoResumed_RemovesFirst(h, ok) ==
    /\ pc[h] = "answer_info"
    /\ LET f == map_filename[h][1]
           fin == Finally(disk, f)
       IN  /\ pc' = [pc EXCEPT ![h] = IF ok THEN "answer_document" ELSE "raised"]
           /\ log' = [log EXCEPT ![h] =
                        IF ok THEN @ \o fin.ops \o <<Event("answer_document", f)>>
                        ELSE Append(@, Event("raise", <<"TelegramAPIError">>)) \o fin.ops]
           /\ disk' = fin.disk
    /\ UNCHANGED <<text, handler, ip, resp, data, map_filename, attached,
                   valid_in, valid_out>>

\* message.answer(info_text) completes: the attachment is sent, or the
\* exception runs the finally block and leaves the handler
InfoResumed(h, ok) ==
    /\ pc[h] = "answer_info"
    /\ LET f == map_filename[h][1]
           fin == Finally(disk, f)
       IN  IF ok THEN
               /\ pc' = [pc EXCEPT ![h] = "answer_document"]
               /\ log' = [log EXCEPT ![h] = Append(@, Event("answer_document", f))]
               /\ disk' = disk
           ELSE
               /\ pc' = [pc EXCEPT ![h] = "raised"]
               /\ log' = [log EXCEPT ![h] =
                            Append(@, Event("raise", <<"TelegramAPIError">>)) \o fin.ops]
               /\ disk' = fin.disk
    /\ UNCHANGED <<text, handler, ip, resp, data, map_filename, attached,
                   valid_in, valid_out>>

\* the upload opens FSInputFile(map_filename): FileNotFoundError when the file
\* is gone, which runs the finally block (nothing left to remove) and leaves
\* the handler
DocumentRead(h) ==
    /\ pc[h] = "answer_document"
    /\ LET f == map_filename[h][1]
       IN  IF f \in DOMAIN disk THEN
               /\ pc' = [pc EXCEPT ![h] = "answer_document.sent"]
               /\ attached' = [attached EXCEPT ![h] = Some(disk[f])]
               /\ log' = log
           ELSE
               /\ pc' = [pc EXCEPT ![h] = "raised"]
               /\ attached' = attached
               /\ log' = [log EXCEPT ![h] = Append(@, Event("raise", <<"FileNotFoundError">>))]
    /\ UNCHANGED <<text, handler, ip, resp, data, map_filename, disk,
                   valid_in, valid_out>>

\* message.answer_document completes (ok) or raises; the finally block runs
DocumentResumed(h, ok) ==
    /\ pc[h] = "answer_document.sent"
    /\ LET fin == Finally(disk, map_filename[h][1])
       IN  /\ pc' = [pc EXCEPT ![h] = IF ok THEN "returned" ELSE "raised"]
           /\ log' = [log EXCEPT ![h] =
                        (IF ok THEN @ ELSE Append(@, Event("raise", <<"TelegramAPIError">>)))
                        \o fin.ops]
           /\ disk' = fin.disk
    /\ UNCHANGED <<text, handler, ip, resp, data, map_filename, attached,
                   valid_in, valid_out>>

Next ==
    \/ \E h \in Req, t \in Texts : cmd_start(h, t)
    \/ \E h \in Req, t \in Texts : cmd_help(h, t)
    \/ \E h \in Req, t \in Texts, r \in SelfIpResponses : cmd_my_ip(h, t, r)
    \/ \E h \in Req, t \in Texts : process_ip(h, t)
    \/ \E h \in Req, t \in Texts : Unhandled(h, t)
    \/ \E h \in Req, ok \in BOOLEAN : AnswerResumed(h, ok)
    \/ \E h \in Req, ok \in BOOLEAN : TypingResumed(h, ok)
    \/ \E h \in Req, ok \in BOOLEAN : InfoResumed(h, ok)
    \/ \E h \in Req : DocumentRead(h)
    \/ \E h \in Req, ok \in BOOLEAN : DocumentResumed(h, ok)

Spec == Init /\ [][Next]_vars

(* ------------------- the validator as a pure function ------------------ *)
InitValid ==
    /\ pc = [h \in Req |-> "waiting"]
    /\ text = [h \in Req |-> <<>>]
    /\ handler = [h \in Req |-> "unset"]
    /\ ip = [h \in Req |-> None]
    /\ resp = [h \in Req |-> NoResp]
    /\ data = [h \in Req |-> None]
    /\ map_filename = [h \in Req |-> None]
    /\ attached = [h \in Req |-> None]
    /\ disk = <<>>
    /\ log = [h \in Req |-> <<>>]
    /\ valid_in \in ValidatorInputs
    /\ valid_out = "unset"

Validate ==
    /\ valid_out = "unset"
    /\ valid_out' = IF is_valid_ip(valid_in) THEN "True" ELSE "False"
    /\ UNCHANGED <<valid_in, hvars>>

NextValid == Validate

SpecValid == InitValid /\ [][NextValid]_vars

(* ------------------ get_ip_info on every provider response ------------- *)
Addresses == {Ip8888, Ip08888}

InitLookup ==
    /\ pc = [h \in Req |-> IF h = 1 THEN "get_ip_info" ELSE "waiting"]
    /\ text = [h \in Req |-> <<>>]
    /\ handler = [h \in Req |-> "unset"]
    /\ \E a \in Addresses : \E r \in GeoResponses(a) :
          /\ ip = [h \in Req |-> IF h = 1 THEN Some(a) ELSE None]
          /\ resp = [h \in Req |-> IF h = 1 THEN r ELSE NoResp]
    /\ data = [h \in Req |-> None]
    /\ map_filename = [h \in Req |-> None]
    /\ attached = [h \in Req |-> None]
    /\ disk = <<>>
    /\ log = [h \in Req |-> <<>>]
    /\ valid_in = <<>>
    /\ valid_out = "unset"

\* data, map_filename = get_ip_info(ip)
Lookup ==
    /\ pc[1] = "get_ip_info"
    /\ LET res == get_ip_info(1, ip[1][1], resp[1], disk)
       IN  /\ data' = [data EXCEPT ![1] = res.data]
           /\ map_filename' = [map_filename EXCEPT ![1] = res.second]
           /\ disk' = res.disk
           /\ log' = [log EXCEPT ![1] = res.ops]
    /\ pc' = [pc EXCEPT ![1] = "looked_up"]
    /\ UNCHANGED <<text, handler, ip, resp, attached, valid_in, valid_out>>

NextLookup == Lookup

SpecLookup == InitLookup /\ [][NextLookup]_vars

(* ======================= properties of the handlers ==================== *)
\* the arguments of the events of one kind, in the order they were logged
RECURSIVE ArgsOf(_, _)
ArgsOf(lg, op) ==
    IF lg = <<>> THEN <<>>
    ELSE (IF lg[1].op = op THEN <<lg[1].arg>> ELSE <<>>) \o ArgsOf(Tail(lg), op)

Answers(h) == ArgsOf(log[h], "answer")
Documents(h) == ArgsOf(log[h], "answer_document")
Typings(h) == ArgsOf(log[h], "send_chat_action")
Saves(h) == ArgsOf(log[h], "save")
Removes(h) == ArgsOf(log[h], "remove")
HttpGets(h) == ArgsOf(log[h], "requests.get")

IsGeoGet(arg) == arg[1] = "ip-api.com/json/"
GeoGets(h) == SelectSeq(HttpGets(h), IsGeoGet)

IsErrorText(m) == m # <<>> /\ m[1] = ErrPrefix
HasWarning(m) == m # <<>> /\ m[Len(m)] = WarnSuffix

\* the call logged at position k raised
RaisedAt(lg, k) == k < Len(lg) /\ lg[k + 1].op = "raise"

\* some call of kind op in the log raised
Raised(lg, op) == \E k \in 1..Len(lg) : lg[k].op = op /\ RaisedAt(lg, k)

\* files on disk that request h wrote
WrittenBy(h) == { f \in DOMAIN disk : disk[f] = h }

\* C1: a request whose lookup returned a record with both latitude and
\* longitude present has created a map file, and that file is not on disk at
\* the step on which its handler exits.
C1_ArtifactCreatedThenGone ==
    [][\A h \in Req :
         (/\ pc[h] \notin Exited
          /\ pc'[h] \in Exited
          /\ data'[h] # None
          /\ data'[h][1].lat # None
          /\ data'[h][1].lon # None)
         => (/\ Saves(h)' # <<>>
             /\ map_filename'[h] # None
             /\ map_filename'[h][1] \notin DOMAIN disk')]_vars

\* C2 as stated: a handler that ran for a valid IPv4 text and returned (no
\* send raised) has sent exactly one typing indicator and then either the info
\* text and one attachment, or one info text with the warning suffix and no
\* attachment.
C2_TwoOutcomesOnly ==
    \A h \in Req :
        (handler[h] = "process_ip" /\ pc[h] = "returned")
        => /\ Len(Typings(h)) = 1
           /\ Len(Answers(h)) = 1
           /\ ~IsErrorText(Answers(h)[1])
           /\ \/ ~HasWarning(Answers(h)[1]) /\ Len(Documents(h)) = 1
              \/ HasWarning(Answers(h)[1]) /\ Documents(h) = <<>>

\* C2 amended: a handler that ran for a valid IPv4 text issues exactly one
\* typing indicator, first; once it has exited it has sent nothing more (the
\* indicator raised), or one error-prefixed message and no attachment (no
\* record), or one warning-suffixed info text and no attachment, or one info
\* text without suffix followed by one attachment unless the text send
\* raised.  A warning-suffixed message and an attachment never go together.
C2_Outcomes ==
    \A h \in Req :
        handler[h] = "process_ip"
        => /\ Len(Typings(h)) = 1
           /\ log[h][1].op = "send_chat_action"
           /\ ~(\E m \in Range(Answers(h)) : HasWarning(m) /\ Documents(h) # <<>>)
           /\ pc[h] \in Exited
              => \/ /\ RaisedAt(log[h], 1)
                    /\ Answers(h) = <<>>
                    /\ Documents(h) = <<>>
                 \/ /\ Len(Answers(h)) = 1
                    /\ IsErrorText(Answers(h)[1])
                    /\ data[h] = None
                    /\ Documents(h) = <<>>
                 \/ /\ Len(Answers(h)) = 1
                    /\ HasWarning(Answers(h)[1])
                    /\ ~IsErrorText(Answers(h)[1])
                    /\ Documents(h) = <<>>
                 \/ /\ Len(Answers(h)) = 1
                    /\ ~HasWarning(Answers(h)[1])
                    /\ ~IsErrorText(Answers(h)[1])
                    /\ IF Raised(log[h], "answer") THEN Documents(h) = <<>>
                       ELSE Len(Documents(h)) = 1

\* C2 witness: a valid IPv4 text was answered with info text and attachment,
\* and another with the warning-suffixed text
C2_Witness ==
    /\ \E h \in Req : /\ handler[h] = "process_ip"
                      /\ pc[h] = "returned"
                      /\ Len(Documents(h)) = 1
    /\ \E h \in Req : /\ handler[h] = "process_ip"
                      /\ pc[h] = "returned"
                      /\ HasWarning(Answers(h)[1])

\* the text matches none of the four filters
NoMatch(t) ==
    /\ ~IsStartCommand(t)
    /\ Lower(t) # HelpText
    /\ Lower(t) # MyIpText
    /\ ~is_valid_ip(t)

\* C3: a received text that is not the start command, is neither the help
\* text nor the my-IP text in any letter case, and fails the validator causes
\* no reply, no typing indicator, no HTTP request and no file.
C3_SilentOnNoMatch ==
    \A h \in Req :
        (pc[h] # "waiting" /\ NoMatch(text[h]))
        => /\ log[h] = <<>>
           /\ pc[h] = "ignored"
           /\ WrittenBy(h) = {}

\* C3 witness: "not an ip" was received and dropped
C3_Witness == \E h \in Req : text[h] = NotAnIp /\ pc[h] = "ignored"

\* the self-IP request of h raised a network error
SelfIpNetworkError(h) ==
    /\ Len(log[h]) >= 2
    /\ log[h][1] = Event("requests.get", <<"api.ipify.org">>)
    /\ log[h][2] = Event("raise", <<"RequestException">>)

\* C4: when the my-IP text is received and the self-IP request raises a
\* network error, the handler sends exactly one message, the one asking for
\* manual entry, and issues no typing indicator, no geo request and no file.
C4_ManualEntryOnly ==
    \A h \in Req :
        (Lower(text[h]) = MyIpText /\ SelfIpNetworkError(h))
        => /\ Answers(h) = <<ManualReply>>
           /\ Typings(h) = <<>>
           /\ GeoGets(h) = <<>>
           /\ Len(HttpGets(h)) = 1
           /\ Saves(h) = <<>>
           /\ WrittenBy(h) = {}
           /\ resp[h] = NoResp

\* C4 witness: the manual-entry message was delivered after a network error
C4_Witness ==
    \E h \in Req : /\ text[h] = MyIpButton
                   /\ SelfIpNetworkError(h)
                   /\ pc[h] = "returned"

\* C5: no handler terminates by propagating an exception.
C5_NothingPropagates == \A h \in Req : pc[h] # "raised"

\* C6: for a successful provider response get_ip_info returns a record, and
\* it returns a map filename, with the file written, exactly when latitude
\* and longitude are both present in the response.
C6_MapIffCoordinatesPresent ==
    (pc[1] = "looked_up" /\ resp[1].exc = "" /\ resp[1].status = Some("success"))
    => /\ data[1] # None
       /\ (map_filename[1] # None /\ map_filename[1][1] \in DOMAIN disk)
          <=> (resp[1].lat # None /\ resp[1].lon # None)

\* a canonical decimal octet: digits only, value at most 255
IsOctet(seg) ==
    /\ seg # <<>>
    /\ \A i \in 1..Len(seg) : seg[i] \in Digits
    /\ DigitsValue(seg, 0, FALSE).val <= 255

\* four dot-separated segments of digits, each in 0..255
IsDottedQuad(t) ==
    LET parts == Split(t, ".")
    IN  Len(parts) = 4 /\ \A i \in 1..4 : IsOctet(parts[i])

\* C7: is_valid_ip returns True exactly for the strings of four dot-separated
\* segments that consist of digits only and lie in 0..255.
C7_ValidIffDottedQuad ==
    valid_out # "unset" => (valid_out = "True" <=> IsDottedQuad(valid_in))

\* request h holds a map file name returned by its lookup
HasMap(h) == data[h] # None /\ map_filename[h] # None

\* what is on disk under name f: 0 when absent, else the request that wrote it
FileState(d, f) == IF f \in DOMAIN d THEN d[f] ELSE 0

StepRank(e) ==
    IF e.op = "send_chat_action" THEN 1
    ELSE IF e.op = "requests.get" /\ IsGeoGet(e.arg) THEN 2
    ELSE IF e.op = "save" THEN 3
    ELSE IF e.op = "answer" THEN 4
    ELSE IF e.op = "answer_document" THEN 5
    ELSE IF e.op = "remove" THEN 6
    ELSE 0

\* C9: in a request that reaches process_ip_request the typing indicator
\* comes first and the steps typing, lookup, map file, reply, attachment,
\* cleanup each happen at most once and in this order; the map file is
\* removed only after the attachment send was issued or the reply raised.
C9_StepOrder ==
    \A h \in Req :
        Typings(h) # <<>>
        => /\ \A k, l \in 1..Len(log[h]) :
                (k < l /\ StepRank(log[h][k]) > 0 /\ StepRank(log[h][l]) > 0)
                => /\ StepRank(log[h][k]) < StepRank(log[h][l])
                   /\ StepRank(log[h][k]) >= 1
           /\ \A l \in 1..Len(log[h]) :
                StepRank(log[h][l]) > 1
                => \E k \in 1..(l - 1) : StepRank(log[h][k]) = 1
           /\ \A l \in 1..Len(log[h]) :
                log[h][l].op = "remove"
                => \/ \E k \in 1..(l - 1) : log[h][k].op = "answer_document"
                   \/ \E k \in 1..(l - 1) : log[h][k].op = "answer" /\ RaisedAt(log[h], k)

\* C9 witness: a request went through all the steps, and another removed its
\* file after the reply raised
C9_Witness ==
    /\ \E h \in Req :
          /\ pc[h] = "returned"
          /\ Typings(h) # <<>> /\ GeoGets(h) # <<>> /\ Saves(h) # <<>>
          /\ Answers(h) # <<>> /\ Documents(h) # <<>> /\ Removes(h) # <<>>
    /\ \E h \in Req :
          /\ pc[h] = "raised"
          /\ Documents(h) = <<>> /\ Removes(h) # <<>>

\* C10: once the lookup has run, a request without a record has sent exactly
\* one message, the error prefix followed by the failure text (the provider's
\* message when the provider reported one), has sent no attachment and does
\* nothing more; a provider failure or a network error yields no record; a
\* request with a record never sends an error-prefixed message, whether or
\* not it has a file name.
C10_ErrorIffNoRecord ==
    \A h \in Req :
        resp[h] # NoResp
        => /\ (resp[h].exc # "" \/ resp[h].status = Some("fail")) => data[h] = None
           /\ data[h] = None
              => /\ Len(Answers(h)) = 1
                 /\ IsErrorText(Answers(h)[1])
                 /\ Answers(h)[1] = <<ErrPrefix>> \o map_filename[h][1]
                 /\ (resp[h].status = Some("fail") /\ resp[h].message # None)
                    => Answers(h)[1] = <<ErrPrefix>> \o resp[h].message[1]
                 /\ Documents(h) = <<>>
                 /\ pc[h] \in {"answer_err", "returned", "raised"}
           /\ data[h] # None
              => /\ \A m \in Range(Answers(h)) : ~IsErrorText(m)
                 /\ Answers(h) # <<>>

\* C10 witness: an error reply after a provider failure, and a reply without
\* error prefix for a record that came without a file name
C10_Witness ==
    /\ \E h \in Req : /\ resp[h].status = Some("fail")
                      /\ pc[h] = "returned"
                      /\ IsErrorText(Answers(h)[1])
    /\ \E h \in Req : /\ data[h] # None /\ map_filename[h] = None
                      /\ pc[h] = "returned"


\* the first of the five cases that the text matches, in the order start
\* command, help, my IP, valid IP, no match
FirstCase(t) ==
    IF IsStartCommand(t) THEN "cmd_start"
    ELSE IF Lower(t) = HelpText THEN "cmd_help"
    ELSE IF Lower(t) = MyIpText THEN "cmd_my_ip"
    ELSE IF is_valid_ip(t) THEN "process_ip"
    ELSE "none"

IsSelfIpGet(arg) == arg = <<"api.ipify.org">>
SelfIpGets(h) == SelectSeq(HttpGets(h), IsSelfIpGet)

\* C11: a received message is handled by exactly the first case its text
\* matches, and its calls are those of that case alone: start and help send
\* their one reply and start no lookup (no typing indicator, no HTTP request);
\* the my-IP flow begins with the self-IP request and the free-text flow
\* begins with the typing indicator without any self-IP request; no message
\* starts more than one lookup; an unmatched text causes no call.
C11_FirstMatchOnly ==
    \A h \in Req :
        pc[h] # "waiting"
        => /\ handler[h] = FirstCase(text[h])
           /\ Len(Typings(h)) <= 1
           /\ Len(GeoGets(h)) <= 1
           /\ Len(SelfIpGets(h)) <= 1
           /\ handler[h] = "cmd_start"
              => /\ Answers(h) = <<Greeting>>
                 /\ Typings(h) = <<>> /\ HttpGets(h) = <<>> /\ resp[h] = NoResp
           /\ handler[h] = "cmd_help"
              => /\ Answers(h) = <<HelpReply>>
                 /\ Typings(h) = <<>> /\ HttpGets(h) = <<>> /\ resp[h] = NoResp
           /\ handler[h] = "cmd_my_ip"
              => /\ log[h][1] = Event("requests.get", <<"api.ipify.org">>)
                 /\ Len(SelfIpGets(h)) = 1
           /\ handler[h] = "process_ip"
              => /\ log[h][1].op = "send_chat_action"
                 /\ SelfIpGets(h) = <<>>
           /\ handler[h] = "none" => log[h] = <<>>

\* C11 witness: a help message was answered and a my-IP message went on to
\* a lookup
C11_Witness ==
    /\ \E h \in Req : text[h] = HelpButton /\ pc[h] = "returned"
    /\ \E h \in Req : text[h] = MyIpButton /\ GeoGets(h) # <<>>


\* no handler is between two of its steps
Quiescent == \A h \in Req : pc[h] \in Exited \cup {"waiting"}

\* C12: when no handler is in flight, no artifact file is on disk, also when
\* requests shared one file name, whatever the interleaving and whichever
\* sends raised.
C12_NoArtifactLeft == Quiescent => DOMAIN disk = {}

\* C12 witness: two requests that wrote the same file name have both exited,
\* one after its upload failed because the other had removed the file
C12_Witness ==
    \E i, j \in Req :
        /\ i # j
        /\ pc[i] \in Exited /\ pc[j] \in Exited
        /\ Saves(i) # <<>> /\ Saves(j) # <<>>
        /\ map_filename[i] = map_filename[j]
        /\ Removes(i) # <<>>
        /\ Event("raise", <<"FileNotFoundError">>) \in Range(log[j])

\* C13: a step that changes the set of files, or what a file holds, is a step
\* of a request whose lookup returned a record from a response with latitude
\* and longitude; the start, help, no-match, self-IP-failure, lookup-failure
\* and record-without-file paths leave the disk as it is.
C13_DiskFrame ==
    [][\A h \in Req :
         pc'[h] # pc[h]
         => /\ disk' # disk
               => /\ data'[h] # None
                  /\ resp'[h].lat # None
                  /\ resp'[h].lon # None
            /\ (\/ handler'[h] \in {"cmd_start", "cmd_help", "none"}
                \/ ip'[h] = None
                \/ data'[h] = None
                \/ map_filename'[h] = None)
               => disk' = disk]_vars

\* C13 witness: with another request's file on disk, a start message, a
\* failed lookup or a record without file name was handled to the end
C13_Witness ==
    \E i, j \in Req :
        /\ i # j
        /\ HasMap(j) /\ map_filename[j][1] \in DOMAIN disk
        /\ pc[i] = "returned"
        /\ \/ handler[i] = "cmd_start"
           \/ resp[i] # NoResp /\ data[i] = None
           \/ data[i] # None /\ map_filename[i] = None

====
